---------------------------- MODULE Spec2Model ----------------------------
(***************************************************************************)
(* Model of media/libeffects/dynamicsproc/aidl/DynamicsProcessing.cpp:     *)
(* the factory functions createEffect / queryEffect and one                *)
(* DynamicsProcessingImpl instance (the one the caller's instance slot     *)
(* refers to) with its context, its worker thread and the calls it         *)
(* forwards to the context.                                                *)
(***************************************************************************)
EXTENDS Integers, Sequences, FiniteSets, TLC

VARIABLES
    mState,      \* DynamicsProcessingImpl::mState: "INIT" or "IDLE"
    mContext,    \* DynamicsProcessingImpl::mContext: 0 = null, else the id of the context
    ctx,         \* the state of the context object mContext last referred to
    ctxCreated,  \* contexts created for this instance (make_shared calls)
    threads,     \* worker threads created for this instance (successful createThread)
    workerPc,    \* position of the worker thread inside effectProcessImpl
    lastCmd,     \* history: last supported command forwarded to the current context
    last         \* the call that just returned: its arguments, return value, forwarded calls

vars == <<mState, mContext, ctx, ctxCreated, threads, workerPc, lastCmd, last>>

(***************************************************************************)
(* Bounds                                                                  *)
(***************************************************************************)
\* contexts one instance may create before open is no longer offered
MaxContexts == 2
\* largest sample count handed to effectProcessImpl
MaxSamples == 1

(***************************************************************************)
(* Values of the interface                                                 *)
(***************************************************************************)
EX_NONE == "EX_NONE"
EX_ILLEGAL_ARGUMENT == "EX_ILLEGAL_ARGUMENT"
EX_NULL_POINTER == "EX_NULL_POINTER"
EX_UNSUPPORTED_OPERATION == "EX_UNSUPPORTED_OPERATION"
SUCCESS == "SUCCESS"
ERROR_ILLEGAL_PARAMETER == "ERROR_ILLEGAL_PARAMETER"
RetCodes == {SUCCESS, ERROR_ILLEGAL_PARAMETER}
\* what createThread returns
ERROR_THREAD == "ERROR_THREAD"
ThreadRetCodes == {SUCCESS, ERROR_THREAD}

\* pointer arguments: a null pointer or a pointer to the caller's object
NULLPTR == "nullptr"
PTR == "ptr"
Pointers == {NULLPTR, PTR}

kDynamicsProcessingImplUUID == "kDynamicsProcessingImplUUID"
kDynamicsProcessingTypeUUID == "kDynamicsProcessingTypeUUID"
\* the uuid arguments tried: null, the implementation's, the type's, a foreign one
Uuids == {NULLPTR, kDynamicsProcessingImplUUID, kDynamicsProcessingTypeUUID, "kEqualizerImplUUID"}

kDescriptor == [type |-> kDynamicsProcessingTypeUUID, uuid |-> kDynamicsProcessingImplUUID,
                name |-> "DynamicsProcessing", minCutOffFreq |-> 220, maxCutOffFreq |-> 20000]
\* what the caller's Descriptor holds before a call
PriorDescriptor == [type |-> "none", uuid |-> "none", name |-> "", minCutOffFreq |-> 0,
                    maxCutOffFreq |-> 0]

FLOAT_32_BIT == "FLOAT_32_BIT"
PcmTypes == {FLOAT_32_BIT, "INT_16_BIT"}

CommandIds == {"START", "STOP", "RESET", "VENDOR_COMMAND_0"}

\* the tags of the DynamicsProcessing union, in the order of the switches
SettableTags == {"engineArchitecture", "preEq", "postEq", "preEqBand", "postEqBand",
                 "mbc", "mbcBand", "limiter", "inputGain"}
DynamicsProcessingTags == SettableTags \cup {"vendorExtension"}
\* payloads: the value a fresh context holds for every parameter, and another one
DefaultValue == "v0"
Values == {DefaultValue, "v1"}

\* Parameter::Specific values: a dynamicsProcessing one, or one of another effect
DpSpecific(tag, val) == [tag |-> "dynamicsProcessing", dpTag |-> tag, val |-> val]
OtherSpecific == [tag |-> "equalizer", dpTag |-> "none", val |-> DefaultValue]
\* std::optional<Parameter::Specific> without a value
NoSpecific == [tag |-> "nullopt", dpTag |-> "none", val |-> DefaultValue]
\* what the caller's Parameter::Specific holds before getParameterSpecific
PriorSpecific == [tag |-> "prior", dpTag |-> "none", val |-> DefaultValue]
Specifics(tags) == {DpSpecific(t, v) : t \in tags, v \in Values} \cup {OtherSpecific}

\* Parameter::Id values: dynamicsProcessingTag with commonTag or vendorExtensionTag, or another
DpCommonId(tag) == [tag |-> "dynamicsProcessingTag", dpIdTag |-> "commonTag", common |-> tag]
DpVendorId == [tag |-> "dynamicsProcessingTag", dpIdTag |-> "vendorExtensionTag", common |-> "none"]
OtherId == [tag |-> "equalizerTag", dpIdTag |-> "none", common |-> "none"]
Ids(tags) == {DpCommonId(t) : t \in tags} \cup {DpVendorId, OtherId}

\* IEffect::Status
Status(status, consumed, produced) ==
    [status |-> status, fmqConsumed |-> consumed, fmqProduced |-> produced]

(***************************************************************************)
(* The context (DynamicsProcessingContext): what the forwarded calls do    *)
(***************************************************************************)
\* a context as its constructor leaves it
NewContext == [enabled |-> FALSE, params |-> [t \in SettableTags |-> DefaultValue]]
\* the parameter a setter or getter of the context is about
FieldOf(method) ==
    CASE method \in {"setEngineArchitecture", "getEngineArchitecture"} -> "engineArchitecture"
      [] method \in {"setPreEq", "getPreEq"} -> "preEq"
      [] method \in {"setPostEq", "getPostEq"} -> "postEq"
      [] method \in {"setPreEqBand", "getPreEqBand"} -> "preEqBand"
      [] method \in {"setPostEqBand", "getPostEqBand"} -> "postEqBand"
      [] method \in {"setMbc", "getMbc"} -> "mbc"
      [] method \in {"setMbcBand", "getMbcBand"} -> "mbcBand"
      [] method \in {"setLimiter", "getLimiter"} -> "limiter"
      [] method \in {"setInputGain", "getInputGain"} -> "inputGain"
\* a setter that returns rc: the value is stored when rc is SUCCESS
ContextSet(c, setter, val, rc) ==
    IF rc = SUCCESS THEN [c EXCEPT !.params[FieldOf(setter)] = val] ELSE c
ContextGet(c, getter) == c.params[FieldOf(getter)]
ContextEnable(c) == [c EXCEPT !.enabled = TRUE]
ContextDisable(c) == [c EXCEPT !.enabled = FALSE]
\* what the engine returns for a block of samples
LvmProcess(c, samples) == Status(EX_NONE, samples, samples)
\* the values a function takes
Range(f) == {f[x] : x \in DOMAIN f}
\* one forwarded call, as recorded in last.calls
Call(method, val, rc) == [method |-> method, val |-> val, rc |-> rc]

(***************************************************************************)
(* createEffect, queryEffect, getDescriptor                                *)
(***************************************************************************)
\* a call that has returned; out is what the call's output argument holds afterwards
Returned(op, arg, ret, calls, out) ==
    [op |-> op, arg |-> arg, ret |-> ret, calls |-> calls, out |-> out]
\* the process is gone once the worker has dereferenced a null mContext
Alive == last.op # "SIGSEGV"

\* createEffect without the check of instanceSpp
CreateEffectRetNoSppCheck(in_impl_uuid, instanceSpp) ==
    IF in_impl_uuid = NULLPTR \/ in_impl_uuid # kDynamicsProcessingImplUUID
    THEN EX_ILLEGAL_ARGUMENT
    ELSE EX_NONE

CreateEffectRet(in_impl_uuid, instanceSpp) ==
    IF in_impl_uuid = NULLPTR \/ in_impl_uuid # kDynamicsProcessingImplUUID
    THEN EX_ILLEGAL_ARGUMENT
    ELSE IF instanceSpp # NULLPTR THEN EX_NONE ELSE EX_ILLEGAL_ARGUMENT

\* on success *instanceSpp refers to a newly constructed DynamicsProcessingImpl
createEffect(in_impl_uuid, instanceSpp) ==
    LET ret == CreateEffectRet(in_impl_uuid, instanceSpp) IN
    /\ Alive
    /\ IF ret = EX_NONE
       THEN /\ mState' = "INIT"
            /\ mContext' = 0
            /\ ctx' = NewContext
            /\ ctxCreated' = 0
            /\ threads' = 0
            /\ workerPc' = [at |-> "idle", samples |-> 0]
            /\ lastCmd' = "none"
       ELSE UNCHANGED <<mState, mContext, ctx, ctxCreated, threads, workerPc, lastCmd>>
    /\ last' = Returned("createEffect", [uuid |-> in_impl_uuid, instanceSpp |-> instanceSpp],
                        ret, <<>>, IF ret = EX_NONE THEN "newInstance" ELSE "unchanged")

\* queryEffect that only checks the uuid for null
QueryEffectRetAnyUuid(in_impl_uuid) ==
    IF in_impl_uuid = NULLPTR THEN EX_ILLEGAL_ARGUMENT ELSE EX_NONE

QueryEffectRet(in_impl_uuid) ==
    IF in_impl_uuid = NULLPTR \/ in_impl_uuid # kDynamicsProcessingImplUUID
    THEN EX_ILLEGAL_ARGUMENT
    ELSE EX_NONE

queryEffect(in_impl_uuid) ==
    LET ret == QueryEffectRet(in_impl_uuid) IN
    /\ Alive
    /\ last' = Returned("queryEffect", [uuid |-> in_impl_uuid], ret, <<>>,
                        IF ret = EX_NONE THEN kDescriptor ELSE PriorDescriptor)
    /\ UNCHANGED <<mState, mContext, ctx, ctxCreated, threads, workerPc, lastCmd>>

getDescriptor(aidl_return) ==
    /\ Alive
    /\ last' = IF aidl_return = NULLPTR
               THEN Returned("getDescriptor", [ptr |-> aidl_return], EX_ILLEGAL_ARGUMENT, <<>>,
                             PriorDescriptor)
               ELSE Returned("getDescriptor", [ptr |-> aidl_return], EX_NONE, <<>>, kDescriptor)
    /\ UNCHANGED <<mState, mContext, ctx, ctxCreated, threads, workerPc, lastCmd>>

(***************************************************************************)
(* setParameterSpecific, getParameterSpecific                              *)
(***************************************************************************)
\* the switch with the setters of the two EQ band cases exchanged
SetterOfBandsSwapped(tag) ==
    CASE tag = "engineArchitecture" -> "setEngineArchitecture"
      [] tag = "preEq" -> "setPreEq"
      [] tag = "postEq" -> "setPostEq"
      [] tag = "preEqBand" -> "setPostEqBand"
      [] tag = "postEqBand" -> "setPreEqBand"
      [] tag = "mbc" -> "setMbc"
      [] tag = "mbcBand" -> "setMbcBand"
      [] tag = "limiter" -> "setLimiter"
      [] tag = "inputGain" -> "setInputGain"
      [] tag = "vendorExtension" -> "none"

\* the context setter each case of the switch calls
SetterOf(tag) ==
    CASE tag = "engineArchitecture" -> "setEngineArchitecture"
      [] tag = "preEq" -> "setPreEq"
      [] tag = "postEq" -> "setPostEq"
      [] tag = "preEqBand" -> "setPreEqBand"
      [] tag = "postEqBand" -> "setPostEqBand"
      [] tag = "mbc" -> "setMbc"
      [] tag = "mbcBand" -> "setMbcBand"
      [] tag = "limiter" -> "setLimiter"
      [] tag = "inputGain" -> "setInputGain"
      [] tag = "vendorExtension" -> "none"

\* the status, the context afterwards and the calls made, when the setter called returns rc
SetParameterSpecificResult(context, c, specific, rc) ==
    IF specific.tag # "dynamicsProcessing"
    THEN [ret |-> EX_ILLEGAL_ARGUMENT, ctx |-> c, calls |-> <<>>]
    ELSE IF context = 0
    THEN [ret |-> EX_NULL_POINTER, ctx |-> c, calls |-> <<>>]
    ELSE IF SetterOf(specific.dpTag) = "none"
    THEN [ret |-> EX_ILLEGAL_ARGUMENT, ctx |-> c, calls |-> <<>>]
    ELSE [ret |-> IF rc # SUCCESS THEN EX_ILLEGAL_ARGUMENT ELSE EX_NONE,
          ctx |-> ContextSet(c, SetterOf(specific.dpTag), specific.val, rc),
          calls |-> <<Call(SetterOf(specific.dpTag), specific.val, rc)>>]

setParameterSpecific(specific, rc) ==
    LET r == SetParameterSpecificResult(mContext, ctx, specific, rc) IN
    /\ Alive
    /\ ctx' = r.ctx
    /\ last' = Returned("setParameterSpecific", specific, r.ret, r.calls, "none")
    /\ UNCHANGED <<mState, mContext, ctxCreated, threads, workerPc, lastCmd>>

\* the switch with the mbcBand case reading the mbc getter
GetterOfMbcForBand(tag) ==
    CASE tag = "engineArchitecture" -> "getEngineArchitecture"
      [] tag = "preEq" -> "getPreEq"
      [] tag = "postEq" -> "getPostEq"
      [] tag = "preEqBand" -> "getPreEqBand"
      [] tag = "postEqBand" -> "getPostEqBand"
      [] tag = "mbc" -> "getMbc"
      [] tag = "mbcBand" -> "getMbc"
      [] tag = "limiter" -> "getLimiter"
      [] tag = "inputGain" -> "getInputGain"
      [] tag = "vendorExtension" -> "none"

\* the context getter each case of the switch calls
GetterOf(tag) ==
    CASE tag = "engineArchitecture" -> "getEngineArchitecture"
      [] tag = "preEq" -> "getPreEq"
      [] tag = "postEq" -> "getPostEq"
      [] tag = "preEqBand" -> "getPreEqBand"
      [] tag = "postEqBand" -> "getPostEqBand"
      [] tag = "mbc" -> "getMbc"
      [] tag = "mbcBand" -> "getMbcBand"
      [] tag = "limiter" -> "getLimiter"
      [] tag = "inputGain" -> "getInputGain"
      [] tag = "vendorExtension" -> "none"

\* the status, *specific afterwards and the calls made
GetParameterDynamicsProcessingResult(context, c, tag) ==
    IF context = 0
    THEN [ret |-> EX_NULL_POINTER, out |-> PriorSpecific, calls |-> <<>>]
    ELSE IF GetterOf(tag) = "none"
    THEN [ret |-> EX_ILLEGAL_ARGUMENT, out |-> PriorSpecific, calls |-> <<>>]
    ELSE [ret |-> EX_NONE,
          out |-> DpSpecific(tag, ContextGet(c, GetterOf(tag))),
          calls |-> <<Call(GetterOf(tag), ContextGet(c, GetterOf(tag)), SUCCESS)>>]

GetParameterSpecificResult(context, c, id, specific) ==
    IF specific = NULLPTR
    THEN [ret |-> EX_NULL_POINTER, out |-> PriorSpecific, calls |-> <<>>]
    ELSE IF id.tag # "dynamicsProcessingTag"
    THEN [ret |-> EX_ILLEGAL_ARGUMENT, out |-> PriorSpecific, calls |-> <<>>]
    ELSE IF id.dpIdTag = "commonTag"
    THEN GetParameterDynamicsProcessingResult(context, c, id.common)
    ELSE [ret |-> EX_ILLEGAL_ARGUMENT, out |-> PriorSpecific, calls |-> <<>>]

getParameterSpecific(id, specific) ==
    LET r == GetParameterSpecificResult(mContext, ctx, id, specific) IN
    /\ Alive
    /\ last' = Returned("getParameterSpecific", [id |-> id, specific |-> specific],
                        r.ret, r.calls, r.out)
    /\ UNCHANGED <<mState, mContext, ctx, ctxCreated, threads, workerPc, lastCmd>>

(***************************************************************************)
(* open                                                                    *)
(***************************************************************************)
\* the format check without the comparison of input and output
FormatSupportedInputOnly(inputPcm, outputPcm) == inputPcm = FLOAT_32_BIT

\* "effect only support 32bits float"
FormatSupported(inputPcm, outputPcm) ==
    ~(inputPcm # outputPcm \/ inputPcm # FLOAT_32_BIT)

\* open without the early return for an instance that is already open
AlreadyOpenNever == FALSE

\* RETURN_OK_IF(mState != State::INIT)
AlreadyOpen == mState # "INIT"

\* createContext: the existing context, or a new one stored in mContext
CreateContextResult ==
    IF mContext # 0
    THEN [context |-> mContext, ctx |-> ctx, created |-> ctxCreated]
    ELSE [context |-> ctxCreated + 1, ctx |-> NewContext, created |-> ctxCreated + 1]

\* the Parameter::Specific open hands to setParameterSpecific
OpenSpecific(specific, c) ==
    IF specific.tag # "nullopt"
    THEN specific
    ELSE DpSpecific("engineArchitecture", ContextGet(c, "getEngineArchitecture"))

\* open(common, specific, ret), where setParameterCommon returns commonRet, the context
\* setter called (if any) returns rc and createThread returns threadRc
open(inputPcm, outputPcm, specific, commonRet, rc, threadRc) ==
    LET arg == [inputPcm |-> inputPcm, outputPcm |-> outputPcm, specific |-> specific]
        made == CreateContextResult
        set == SetParameterSpecificResult(made.context, made.ctx,
                                          OpenSpecific(specific, made.ctx), rc)
        common == <<Call("setParameterCommon", "common", commonRet)>>
    IN
    /\ Alive
    /\ mContext # 0 \/ ctxCreated < MaxContexts
    /\ IF ~FormatSupported(inputPcm, outputPcm)
       THEN /\ last' = Returned("open", arg, EX_ILLEGAL_ARGUMENT, <<>>, "none")
            /\ UNCHANGED <<mState, mContext, ctx, ctxCreated, threads, lastCmd>>
       ELSE IF AlreadyOpen
       THEN /\ last' = Returned("open", arg, EX_NONE, <<>>, "none")
            /\ UNCHANGED <<mState, mContext, ctx, ctxCreated, threads, lastCmd>>
       ELSE /\ mContext' = made.context
            /\ ctxCreated' = made.created
            /\ lastCmd' = IF mContext # 0 THEN lastCmd ELSE "none"
            /\ IF made.context = 0
               THEN /\ last' = Returned("open", arg, EX_NULL_POINTER, <<>>, "none")
                    /\ ctx' = made.ctx
                    /\ UNCHANGED <<mState, threads>>
               ELSE IF commonRet # EX_NONE
               THEN /\ last' = Returned("open", arg, commonRet, common, "none")
                    /\ ctx' = made.ctx
                    /\ UNCHANGED <<mState, threads>>
               ELSE IF set.ret # EX_NONE
               THEN /\ last' = Returned("open", arg, set.ret, common \o set.calls, "none")
                    /\ ctx' = set.ctx
                    /\ UNCHANGED <<mState, threads>>
               ELSE /\ mState' = "IDLE"
                    /\ ctx' = set.ctx
                    /\ threads' = IF threadRc = SUCCESS THEN threads + 1 ELSE threads
                    /\ last' = Returned("open", arg,
                                        IF threadRc # SUCCESS THEN EX_UNSUPPORTED_OPERATION
                                        ELSE EX_NONE,
                                        common \o set.calls
                                            \o <<Call("dupeFmq", "ret", SUCCESS),
                                                 Call("createThread", made.context, threadRc)>>,
                                        "fmq")
    /\ UNCHANGED workerPc

(***************************************************************************)
(* commandImpl, releaseContext                                             *)
(***************************************************************************)
\* the switch with RESET falling short of disable
CommandCallsResetOnly(command) ==
    CASE command = "START" -> <<"enable">>
      [] command = "STOP" -> <<"disable">>
      [] command = "RESET" -> <<"resetBuffer">>
      [] OTHER -> <<>>

\* the context methods each case of the switch calls, in order
CommandCalls(command) ==
    CASE command = "START" -> <<"enable">>
      [] command = "STOP" -> <<"disable">>
      [] command = "RESET" -> <<"disable", "resetBuffer">>
      [] OTHER -> <<>>

CommandRet(command) ==
    IF command \in {"START", "STOP", "RESET"} THEN EX_NONE ELSE EX_ILLEGAL_ARGUMENT

\* the context after the methods named in calls have run on it
RECURSIVE ContextAfter(_, _)
ContextAfter(c, calls) ==
    IF calls = <<>> THEN c
    ELSE ContextAfter(CASE Head(calls) = "enable" -> ContextEnable(c)
                        [] Head(calls) = "disable" -> ContextDisable(c)
                        [] OTHER -> c,
                      Tail(calls))

Forwarded(calls) == [i \in 1..Len(calls) |-> Call(calls[i], "none", SUCCESS)]

commandImpl(command) ==
    /\ Alive
    /\ IF mContext = 0
       THEN /\ last' = Returned("commandImpl", command, EX_NULL_POINTER, <<>>, "none")
            /\ UNCHANGED <<ctx, lastCmd>>
       ELSE /\ ctx' = ContextAfter(ctx, CommandCalls(command))
            /\ lastCmd' = IF CommandRet(command) = EX_NONE THEN command ELSE lastCmd
            /\ last' = Returned("commandImpl", command, CommandRet(command),
                                Forwarded(CommandCalls(command)), "none")
    /\ UNCHANGED <<mState, mContext, ctxCreated, threads, workerPc>>

\* what releaseContext does with a context, in order; "reset" drops mContext
ReleaseCalls == <<"disable", "resetBuffer", "reset">>

releaseContext ==
    /\ Alive
    /\ IF mContext # 0
       THEN /\ ctx' = ContextAfter(ctx, ReleaseCalls)
            /\ mContext' = IF "reset" \in {ReleaseCalls[i] : i \in 1..Len(ReleaseCalls)}
                           THEN 0 ELSE mContext
            /\ lastCmd' = "none"
            /\ last' = Returned("releaseContext", "none", SUCCESS, Forwarded(ReleaseCalls), "none")
       ELSE /\ last' = Returned("releaseContext", "none", SUCCESS, <<>>, "none")
            /\ UNCHANGED <<mContext, ctx, lastCmd>>
    /\ UNCHANGED <<mState, ctxCreated, threads, workerPc>>

(***************************************************************************)
(* effectProcessImpl, run by the worker thread                             *)
(***************************************************************************)
\* RETURN_VALUE_IF(!mContext, status, "nullContext"): the first read of mContext
effectProcessImplCheck(samples) ==
    /\ Alive
    /\ threads > 0
    /\ workerPc.at = "idle"
    /\ IF mContext = 0
       THEN /\ last' = Returned("effectProcessImpl", samples, Status(EX_NULL_POINTER, 0, 0),
                                <<>>, "none")
            /\ UNCHANGED workerPc
       ELSE /\ last' = Returned("effectProcessImpl.check", samples, "none", <<>>, "none")
            /\ workerPc' = [at |-> "checked", samples |-> samples]
    /\ UNCHANGED <<mState, mContext, ctx, ctxCreated, threads, lastCmd>>

\* mContext->lvmProcess(in, out, samples): the second read of mContext. Nothing orders it
\* after a releaseContext that ran since the first read; the read then races with
\* mContext.reset(), and the call either dereferences null or reaches the released context.
effectProcessImplCall ==
    /\ Alive
    /\ workerPc.at = "checked"
    /\ workerPc' = [at |-> "idle", samples |-> 0]
    /\ IF mContext # 0
       THEN last' = Returned("effectProcessImpl", workerPc.samples,
                             LvmProcess(ctx, workerPc.samples),
                             <<Call("lvmProcess", workerPc.samples, SUCCESS)>>, "live")
       ELSE \/ last' = Returned("SIGSEGV", workerPc.samples, "none", <<>>, "none")
            \/ last' = Returned("effectProcessImpl", workerPc.samples,
                                LvmProcess(ctx, workerPc.samples),
                                <<Call("lvmProcess", workerPc.samples, SUCCESS)>>, "released")
    /\ UNCHANGED <<mState, mContext, ctx, ctxCreated, threads, lastCmd>>

(***************************************************************************)
(* Specifications                                                          *)
(***************************************************************************)
\* a constructed DynamicsProcessingImpl on which nothing has been called
Init ==
    /\ mState = "INIT"
    /\ mContext = 0
    /\ ctx = NewContext
    /\ ctxCreated = 0
    /\ threads = 0
    /\ workerPc = [at |-> "idle", samples |-> 0]
    /\ lastCmd = "none"
    /\ last = Returned("constructor", "none", "none", <<>>, "none")

\* the tags the parameter calls are tried with in the lifecycle specifications
LifecycleTags == {"engineArchitecture", "limiter", "vendorExtension"}

\* what the calls open makes return: setParameterCommon, the context setter, createThread;
\* a call after the first one that fails is not reached, so its result is left at success
OpenOutcomes ==
    {r \in {EX_NONE, EX_ILLEGAL_ARGUMENT} \X RetCodes \X ThreadRetCodes :
        /\ r[1] # EX_NONE => r[2] = SUCCESS /\ r[3] = SUCCESS
        /\ r[2] # SUCCESS => r[3] = SUCCESS}
Open(tags) ==
    \E i \in PcmTypes, o \in PcmTypes, s \in Specifics(tags) \cup {NoSpecific},
       r \in OpenOutcomes :
        open(i, o, s, r[1], r[2], r[3])
\* an open with a float format and no Parameter::Specific in which every call succeeds
OpenDefault == open(FLOAT_32_BIT, FLOAT_32_BIT, NoSpecific, EX_NONE, SUCCESS, SUCCESS)
Command == \E c \in CommandIds : commandImpl(c)
SetParameter(tags) == \E s \in Specifics(tags), rc \in RetCodes : setParameterSpecific(s, rc)
GetParameter(tags) == \E id \in Ids(tags), p \in Pointers : getParameterSpecific(id, p)
Process == \E n \in 0..MaxSamples : effectProcessImplCheck(n)
CreateEffect == \E u \in Uuids, p \in Pointers : createEffect(u, p)
QueryEffect == \E u \in Uuids : queryEffect(u)
GetDescriptor == \E p \in Pointers : getDescriptor(p)

\* every operation of the file, on one instance
Next ==
    \/ CreateEffect
    \/ QueryEffect
    \/ GetDescriptor
    \/ Open(LifecycleTags)
    \/ Command
    \/ SetParameter(LifecycleTags)
    \/ GetParameter(LifecycleTags)
    \/ releaseContext
    \/ Process
    \/ effectProcessImplCall
Spec == Init /\ [][Next]_vars

\* one instance that is opened and used, and never released or replaced
NextOpen ==
    \/ Open(LifecycleTags)
    \/ Command
    \/ SetParameter(LifecycleTags)
    \/ GetParameter(LifecycleTags)
    \/ GetDescriptor
    \/ Process
    \/ effectProcessImplCall
SpecOpen == Init /\ [][NextOpen]_vars

\* the parameter switches, over every tag of the union, before and after a successful open
NextParams ==
    \/ OpenDefault
    \/ SetParameter(DynamicsProcessingTags)
    \/ GetParameter(DynamicsProcessingTags)
SpecParams == Init /\ [][NextParams]_vars

(***************************************************************************)
(* Properties                                                              *)
(***************************************************************************)
\* the fields of the instance
impl == <<mState, mContext, ctx, ctxCreated, threads, workerPc>>
\* the names of the context methods a call forwarded to, in order
Methods(calls) == [i \in 1..Len(calls) |-> calls[i].method]

\* C1: createEffect returns EX_NONE and stores a newly constructed instance exactly when
\* the uuid is non-null and is kDynamicsProcessingImplUUID and instanceSpp is non-null;
\* otherwise it returns EX_ILLEGAL_ARGUMENT and the instance the caller holds is unchanged.
C1_CreateEffectDispatch ==
    [][last'.op = "createEffect" =>
        /\ last'.ret = EX_NONE <=>
               /\ last'.arg.uuid # NULLPTR
               /\ last'.arg.uuid = kDynamicsProcessingImplUUID
               /\ last'.arg.instanceSpp # NULLPTR
        /\ last'.ret = EX_NONE =>
               /\ last'.out = "newInstance"
               /\ mState' = "INIT" /\ mContext' = 0 /\ ctxCreated' = 0 /\ threads' = 0
        /\ last'.ret # EX_NONE =>
               /\ last'.ret = EX_ILLEGAL_ARGUMENT
               /\ last'.out = "unchanged"
               /\ UNCHANGED impl]_vars
\* C1 witness: createEffect returned EX_NONE and the caller holds a constructed instance
C1_Witness ==
    last.op = "createEffect" /\ last.ret = EX_NONE /\ mState = "INIT" /\ mContext = 0

\* C2: queryEffect writes kDescriptor and returns EX_NONE exactly for the implementation's
\* uuid, else returns EX_ILLEGAL_ARGUMENT and leaves the output as it was; getDescriptor
\* with a non-null output writes the same kDescriptor, whatever the instance's state.
C2_DescriptorConstant ==
    /\ last.op = "queryEffect" =>
        /\ last.ret = EX_NONE <=>
               last.arg.uuid # NULLPTR /\ last.arg.uuid = kDynamicsProcessingImplUUID
        /\ last.ret = EX_NONE => last.out = kDescriptor
        /\ last.ret # EX_NONE => last.ret = EX_ILLEGAL_ARGUMENT /\ last.out = PriorDescriptor
    /\ last.op = "getDescriptor" /\ last.arg.ptr # NULLPTR =>
        last.ret = EX_NONE /\ last.out = kDescriptor
\* C2 witness: queryEffect succeeded while the instance was open with parameters set
C2_Witness ==
    /\ last.op = "queryEffect" /\ last.ret = EX_NONE /\ last.out = kDescriptor
    /\ mState = "IDLE" /\ ctx.params["limiter"] # DefaultValue

\* C3: open with differing input and output PCM types, or an input type other than
\* FLOAT_32_BIT, returns EX_ILLEGAL_ARGUMENT in every state and changes nothing.
C3_OpenRejectsNonFloat ==
    [][/\ last'.op = "open"
       /\ \/ last'.arg.inputPcm # last'.arg.outputPcm
          \/ last'.arg.inputPcm # FLOAT_32_BIT
       => /\ last'.ret = EX_ILLEGAL_ARGUMENT
          /\ last'.calls = <<>>
          /\ UNCHANGED impl]_vars
\* C3 witness: a float input with another output type was rejected on an open instance
C3_Witness ==
    /\ last.op = "open" /\ last.ret = EX_ILLEGAL_ARGUMENT
    /\ last.arg.inputPcm = FLOAT_32_BIT /\ last.arg.outputPcm # FLOAT_32_BIT
    /\ mState = "IDLE" /\ threads = 1

\* C4: an open from INIT that returns OK leaves IDLE, a context and one more worker
\* thread; an open with a float format on an instance that is not in INIT returns OK,
\* forwards nothing and changes nothing; so opens alone create at most one context and
\* at most one worker thread.
C4_OpenOnce ==
    [][/\ ctxCreated' <= 1
       /\ threads' <= 1
       /\ /\ last'.op = "open"
          /\ last'.arg.inputPcm = FLOAT_32_BIT
          /\ last'.arg.outputPcm = FLOAT_32_BIT
          => /\ mState = "INIT" /\ last'.ret = EX_NONE =>
                    mState' = "IDLE" /\ mContext' # 0 /\ threads' = threads + 1
             /\ mState # "INIT" =>
                    last'.ret = EX_NONE /\ last'.calls = <<>> /\ UNCHANGED impl]_vars
\* C4 witness: an open returned OK on an instance that already had its context and worker
C4_Witness ==
    /\ last.op = "open" /\ last.ret = EX_NONE /\ last.calls = <<>>
    /\ mState = "IDLE" /\ mContext # 0 /\ threads = 1 /\ ctxCreated = 1

\* C5: with a context, START forwards enable, STOP disable, RESET disable then
\* resetBuffer, each returning OK; another command returns EX_ILLEGAL_ARGUMENT and
\* forwards nothing; without a context every command returns EX_NULL_POINTER; and the
\* context is enabled iff the last supported command it got was START.
C5_CommandForwarding ==
    [][/\ last'.op = "commandImpl" =>
            IF mContext = 0
            THEN last'.ret = EX_NULL_POINTER /\ last'.calls = <<>> /\ UNCHANGED impl
            ELSE /\ UNCHANGED <<mState, mContext, ctxCreated, threads, workerPc>>
                 /\ ctx'.params = ctx.params
                 /\ CASE last'.arg = "START" ->
                             /\ last'.ret = EX_NONE
                             /\ Methods(last'.calls) = <<"enable">>
                             /\ ctx'.enabled
                      [] last'.arg = "STOP" ->
                             /\ last'.ret = EX_NONE
                             /\ Methods(last'.calls) = <<"disable">>
                             /\ ~ctx'.enabled
                      [] last'.arg = "RESET" ->
                             /\ last'.ret = EX_NONE
                             /\ Methods(last'.calls) = <<"disable", "resetBuffer">>
                             /\ ~ctx'.enabled
                      [] OTHER ->
                             /\ last'.ret = EX_ILLEGAL_ARGUMENT
                             /\ last'.calls = <<>>
                             /\ ctx' = ctx
       /\ mContext' # 0 /\ lastCmd' # "none" => (ctx'.enabled <=> lastCmd' = "START")]_vars
\* C5 witness: RESET reached a context that START had enabled
C5_Witness ==
    /\ last.op = "commandImpl" /\ last.arg = "RESET" /\ last.ret = EX_NONE
    /\ mContext # 0 /\ ~ctx.enabled /\ lastCmd = "RESET"

\* the setter the claim names for each supported tag
MatchingSetter ==
    [t \in SettableTags |->
        CASE t = "engineArchitecture" -> "setEngineArchitecture"
          [] t = "preEq" -> "setPreEq"
          [] t = "postEq" -> "setPostEq"
          [] t = "preEqBand" -> "setPreEqBand"
          [] t = "postEqBand" -> "setPostEqBand"
          [] t = "mbc" -> "setMbc"
          [] t = "mbcBand" -> "setMbcBand"
          [] t = "limiter" -> "setLimiter"
          [] t = "inputGain" -> "setInputGain"]

\* C6: setParameterSpecific returns EX_ILLEGAL_ARGUMENT for a Specific of another effect
\* even without a context; else EX_NULL_POINTER without a context; else, for each of the
\* nine supported tags, calls exactly the matching setter once with the payload and
\* returns OK iff the setter returned SUCCESS, else EX_ILLEGAL_ARGUMENT; vendorExtension
\* returns EX_ILLEGAL_ARGUMENT and calls no setter.
C6_SetParameterDispatch ==
    last.op = "setParameterSpecific" =>
        IF last.arg.tag # "dynamicsProcessing"
        THEN last.ret = EX_ILLEGAL_ARGUMENT /\ last.calls = <<>>
        ELSE IF mContext = 0
        THEN last.ret = EX_NULL_POINTER /\ last.calls = <<>>
        ELSE IF last.arg.dpTag = "vendorExtension"
        THEN last.ret = EX_ILLEGAL_ARGUMENT /\ last.calls = <<>>
        ELSE /\ last.arg.dpTag \in SettableTags
             /\ Len(last.calls) = 1
             /\ last.calls[1].method = MatchingSetter[last.arg.dpTag]
             /\ last.calls[1].val = last.arg.val
             /\ last.ret = EX_NONE <=> last.calls[1].rc = SUCCESS
             /\ last.ret # EX_NONE => last.ret = EX_ILLEGAL_ARGUMENT
             /\ last.ret = EX_NONE => ctx.params[last.arg.dpTag] = last.arg.val
\* C6 witness: the postEqBand setter was called and refused the value
C6_Witness ==
    /\ last.op = "setParameterSpecific" /\ last.arg.tag = "dynamicsProcessing"
    /\ last.arg.dpTag = "postEqBand" /\ last.ret = EX_ILLEGAL_ARGUMENT
    /\ Len(last.calls) = 1 /\ last.calls[1].rc # SUCCESS

\* C7: getParameterSpecific changes nothing of the instance or its context and calls no
\* setter. Null specific gives EX_NULL_POINTER; an id of another effect
\* EX_ILLEGAL_ARGUMENT; a vendorExtensionTag id EX_ILLEGAL_ARGUMENT even without a
\* context; a commonTag id without a context EX_NULL_POINTER; a commonTag naming
\* vendorExtension EX_ILLEGAL_ARGUMENT; on each error *specific is unchanged. Otherwise
\* it returns OK and *specific is a dynamicsProcessing value with the requested tag and
\* the payload of the matching getter, which right after a successful set of that tag is
\* the value that was set.
C7_GetParameterDispatch ==
    [][last'.op = "getParameterSpecific" =>
        LET id == last'.arg.id
            ok == /\ last'.arg.specific # NULLPTR
                  /\ id.tag = "dynamicsProcessingTag"
                  /\ id.dpIdTag = "commonTag"
                  /\ mContext # 0
                  /\ id.common \in SettableTags
        IN
        /\ UNCHANGED <<impl, lastCmd>>
        /\ \A i \in 1..Len(last'.calls) : last'.calls[i].method \notin Range(MatchingSetter)
        /\ last'.ret = IF last'.arg.specific = NULLPTR THEN EX_NULL_POINTER
                       ELSE IF id.tag # "dynamicsProcessingTag" THEN EX_ILLEGAL_ARGUMENT
                       ELSE IF id.dpIdTag = "vendorExtensionTag" THEN EX_ILLEGAL_ARGUMENT
                       ELSE IF mContext = 0 THEN EX_NULL_POINTER
                       ELSE IF id.common = "vendorExtension" THEN EX_ILLEGAL_ARGUMENT
                       ELSE EX_NONE
        /\ last'.ret = EX_NONE <=> ok
        /\ ~ok => last'.out = PriorSpecific /\ last'.calls = <<>>
        /\ ok => /\ last'.out = DpSpecific(id.common, ctx.params[id.common])
                 /\ Len(last'.calls) = 1
                 /\ last'.calls[1].val = last'.out.val
        /\ /\ ok
           /\ last.op = "setParameterSpecific"
           /\ last.ret = EX_NONE
           /\ last.arg.dpTag = id.common
           => last'.out = last.arg]_vars
\* C7 witness: a get of mbcBand returned the non-default value a set had just stored
C7_Witness ==
    /\ last.op = "getParameterSpecific" /\ last.ret = EX_NONE
    /\ last.out = DpSpecific("mbcBand", "v1") /\ ctx.params["mbc"] = DefaultValue

\* C8: whenever open returns a non-OK status the instance is as it was before the call:
\* mState still INIT (unchanged), mContext unchanged, no worker thread created.
C8_FailedOpenChangesNothing ==
    [][last'.op = "open" /\ last'.ret # EX_NONE =>
        /\ mState' = mState
        /\ mContext' = mContext
        /\ threads' = threads
        /\ mState = "INIT" => mState' = "INIT" /\ threads' = 0]_vars

\* C9: in every reachable state, mState # INIT implies a context and a worker thread.
C9_OpenImpliesContextAndWorker ==
    mState # "INIT" => mContext # 0 /\ threads > 0

\* C10: the engine is never invoked on a context that releaseContext has released, and
\* the worker never dereferences the null mContext.
C10_EngineNeverOnReleasedContext ==
    /\ last.op # "SIGSEGV"
    /\ last.op = "effectProcessImpl" /\ last.calls # <<>> => last.out = "live"

\* The parts of C10 that do not involve the race: releaseContext returns SUCCESS and
\* leaves no context, forwarding disable, resetBuffer, reset in this order when there was
\* one and nothing otherwise; an effectProcessImpl that finds no context at its check
\* returns {EX_NULL_POINTER, 0, 0} without calling the engine; one that runs wholly with
\* a context returns what lvmProcess returns.
C10_SequentialParts ==
    [][/\ last'.op = "releaseContext" =>
            /\ last'.ret = SUCCESS
            /\ mContext' = 0
            /\ Methods(last'.calls) =
                   IF mContext # 0 THEN <<"disable", "resetBuffer", "reset">> ELSE <<>>
            /\ mContext = 0 => UNCHANGED impl
       /\ last'.op = "effectProcessImpl" /\ workerPc.at = "idle" =>
            /\ mContext = 0
            /\ last'.ret = Status(EX_NULL_POINTER, 0, 0)
            /\ last'.calls = <<>>
       /\ last'.op = "effectProcessImpl" /\ workerPc.at = "checked" /\ mContext # 0 =>
            /\ last'.ret = LvmProcess(ctx, workerPc.samples)
            /\ Methods(last'.calls) = <<"lvmProcess">>]_vars

=============================================================================
